---------------------------- MODULE Spec2Model ----------------------------
(***************************************************************************)
(* The feed synchronisation engine of goread (src/main.go): the persistent *)
(* store of Feed, Story and StoryContent entities, and the handlers that   *)
(* reconcile a fetched or pushed feed document against it.                 *)
(*                                                                         *)
(* Time is counted in whole hours.  0 is Go's zero time.Time; every real   *)
(* instant is positive.  The store is a set of partial functions from      *)
(* entity keys to entities, as the datastore is.                           *)
(***************************************************************************)
EXTENDS Integers, Sequences, FiniteSets, TLC

(***************************************************************************)
(* Bounds of the model.                                                    *)
(***************************************************************************)
StartTime == 100      \* the clock's first instant
MaxTicks == 1         \* hours the clock may advance
MaxFailures == 1      \* handler runs in which a fetch or a store operation fails
MaxStories == 1       \* story identities of the feed
MaxErrors == 170      \* the error count up to which a feed's polls keep failing
MaxPolls == 4         \* failed polls the scheduler is followed through
MaxDays == 2          \* days the subscription of a feed is followed through
MaxNameTicks == 2     \* ticks the clock advances where task names are followed
MaxMerges == 2        \* calls of mergeUserOpml on one user's tree
MaxIncoming == 2      \* outlines one call of mergeUserOpml is given
MaxGets == 4          \* HTTP fetches one call of fetchFeed is followed through
MaxPurgeStories == 2  \* stories of the feed the retention sweep is followed on
MaxBatches == 3       \* batches of blob keys one run of DeleteBlobs finds
MaxEscapeLen == 3     \* length of the byte strings handed to taskNameEscape

Urls == {"u"}
StoryIds == 1..MaxStories
\* update times a feed document may declare for itself (0: none declared)
FeedTimes == {0, StartTime - 10}
\* content-updated times a story may claim (0: none claimed)
StoryTimes == {0, StartTime - 10}

ZeroTime == 0
IsZero(t) == t = ZeroTime

Min(a, b) == IF a < b THEN a ELSE b
Max(a, b) == IF a > b THEN a ELSE b

(***************************************************************************)
(* Entities.                                                               *)
(***************************************************************************)
\* A Feed as ParseFeed returns it: the declared update time, every field
\* the document does not carry at Go's zero value.
ParsedFeed(upd) ==
    [Updated |-> upd, Date |-> ZeroTime, Average |-> 0, LastViewed |-> ZeroTime,
     NextUpdate |-> ZeroTime, Errors |-> 0, Subscribed |-> ZeroTime]

\* The stories ParseFeed returns at time t: identity, claimed content-updated
\* time, the first-seen stamp t, and the published time when one is known.
ParsedStory(t) ==
    [Id : StoryIds, Updated : StoryTimes, Created : {t}, Published : {ZeroTime, t}]

\* The story lists a document may carry: each identity at most once.
ParsedStories(t) ==
    { ss \in UNION { [1..n -> ParsedStory(t)] : n \in 0..MaxStories } :
        \A i, j \in 1..Len(ss) : i < j => ss[i].Id < ss[j].Id }

(***************************************************************************)
(* Scheduling policy and interval estimate.                                *)
(***************************************************************************)
UpdateMin == 1        \* floor of the poll interval, hours
UpdateMax == 24       \* ceiling of the poll interval, hours

\* next-due = now + average-update-interval, bounded to the floor and ceiling
scheduleNextUpdate(f, t) ==
    [f EXCEPT !.NextUpdate = t + Max(UpdateMin, Min(UpdateMax, f.Average))]

\* the moving estimate of the inter-story interval: the time since the
\* previous content timestamp, spread over the stories newly written
updateAverage(f, previousUpdate, updateCount, t) ==
    IF IsZero(previousUpdate) THEN f
    ELSE [f EXCEPT !.Average = (@ + ((t - previousUpdate) \div updateCount)) \div 2]

NotViewedAfter == 48
NotViewed(f, t) == t - f.LastViewed > NotViewedAfter

\* the subscription-expiry lies in the future
IsSubscribed(f, t) == t < f.Subscribed

\* Feed.Subscribe: a subscribe task is queued for the feed unless nobody views
\* it or it is subscribed; tasks is the set of feeds with a task waiting
Subscribe(tasks, url, f, t) ==
    IF NotViewed(f, t) \/ IsSubscribed(f, t) THEN tasks ELSE tasks \cup {url}


(***************************************************************************)
(* updateFeed: the reconciliation of a parsed feed against the store.      *)
(***************************************************************************)
StoryKey(url, id) == <<url, id>>

\* the persisted Feed overlaid by the parsed one
MergeFeed(f0, feedIn, updateLast, t) ==
    LET feed1 == [feedIn EXCEPT
                    !.Updated = IF IsZero(feedIn.Updated) THEN f0.Updated ELSE @,
                    !.Date = f0.Date,
                    !.Average = f0.Average,
                    !.LastViewed = f0.LastViewed]
    IN IF updateLast THEN [feed1 EXCEPT !.LastViewed = t] ELSE feed1

\* hasUpdated && isFeedUpdated && !updateAll && !fromSub
IsShortCircuit(f0, feedIn, updateAll, fromSub) ==
    /\ ~IsZero(feedIn.Updated)
    /\ f0.Updated = feedIn.Updated
    /\ ~updateAll
    /\ ~fromSub

\* (variant: the short-circuit branch puts the Feed without rescheduling it)
ShortCircuitFeedUnscheduled(f, t) == [f EXCEPT !.Updated = t]

\* the Feed the short-circuit branch puts
ShortCircuitFeed(f, t) == scheduleNextUpdate([f EXCEPT !.Updated = t], t)

\* (variant: a story is queued whenever its claimed time differs, empty or not)
StoryNeedsWriteAnyDiff(sts, url, s, updateAll) ==
    \/ StoryKey(url, s.Id) \notin DOMAIN sts
    \/ s.Updated # sts[StoryKey(url, s.Id)].Updated
    \/ updateAll

\* whether an incoming story is queued for write
StoryNeedsWrite(sts, url, s, updateAll) ==
    \/ StoryKey(url, s.Id) \notin DOMAIN sts
    \/ (~IsZero(s.Updated) /\ s.Updated # sts[StoryKey(url, s.Id)].Updated)
    \/ updateAll

\* (variant: the created time is not copied forward)
CopyForwardCreatedLost(sts, url, s) ==
    IF StoryKey(url, s.Id) \notin DOMAIN sts THEN s
    ELSE LET prior == sts[StoryKey(url, s.Id)]
         IN [s EXCEPT
               !.Published = IF ~IsZero(prior.Published) THEN prior.Published ELSE @]

\* created and published times copied forward from the prior record
CopyForward(sts, url, s) ==
    IF StoryKey(url, s.Id) \notin DOMAIN sts THEN s
    ELSE LET prior == sts[StoryKey(url, s.Id)]
         IN [s EXCEPT
               !.Created = IF ~IsZero(prior.Created) THEN prior.Created ELSE @,
               !.Published = IF ~IsZero(prior.Published) THEN prior.Published ELSE @]

\* updateStories, in the order of the incoming list
UpdateStories(sts, url, ss, updateAll) ==
    LET queued == SelectSeq(ss, LAMBDA s : StoryNeedsWrite(sts, url, s, updateAll))
    IN [i \in 1..Len(queued) |-> CopyForward(sts, url, queued[i])]

PushWaitHours == 6

\* (variant: on a push, next-due is pulled back to now + 6 hours when it lies after)
PushWaitCapped(f, fromSub, t) ==
    IF fromSub /\ f.NextUpdate > t + PushWaitHours
    THEN [f EXCEPT !.NextUpdate = t + PushWaitHours]
    ELSE f

\* on a push, next-due is moved to now + 6 hours when it lies before that
PushWait(f, fromSub, t) ==
    IF fromSub /\ f.NextUpdate < t + PushWaitHours
    THEN [f EXCEPT !.NextUpdate = t + PushWaitHours]
    ELSE f

\* the Feed the full branch puts, nput stories being written with it
FullFeed(f, hasUpdated, nput, fromSub, t) ==
    LET f2 == IF nput > 0
              THEN LET fa == [updateAverage(f, f.Date, nput, t) EXCEPT !.Date = t]
                   IN IF ~hasUpdated THEN [fa EXCEPT !.Updated = t] ELSE fa
              ELSE f
    IN PushWait(scheduleNextUpdate(f2, t), fromSub, t)

\* What one call does to the store and what it returns.  fail names the
\* store operation that fails: 0 none, -1 the GetMulti, k >= 1 the k-th put
\* the call attempts (a StoryContent put, or last the PutMulti of the Feed
\* and the stories; in the short-circuit branch the one Feed put).
NoEffect(fds, sts, cts, ret, path, failed) ==
    [feeds |-> fds, stories |-> sts, contents |-> cts, ret |-> ret, path |-> path,
     storeFail |-> failed, feedPut |-> FALSE, storyPuts |-> {}, contentPuts |-> {}]

\* the store after the PutMulti of the stories us
PutStories(sts, url, us) ==
    [k \in DOMAIN sts \cup { StoryKey(url, us[i].Id) : i \in 1..Len(us) } |->
       IF \E i \in 1..Len(us) : StoryKey(url, us[i].Id) = k
       THEN us[CHOOSE i \in 1..Len(us) : StoryKey(url, us[i].Id) = k]
       ELSE sts[k]]

\* the full branch from the StoryContent puts on: us are the stories queued
\* for write, f the Feed to put with them
PutAll(fds, sts, cts, url, us, f, fail) ==
    LET m == Len(us)
        \* the StoryContent puts that succeed before the first failure
        cput == { us[i].Id : i \in 1..(IF fail \in 1..m THEN fail - 1 ELSE m) }
        cts1 == cts \cup { StoryKey(url, id) : id \in cput }
    IN IF fail \in 1..(m + 1)
       THEN [NoEffect(fds, sts, cts1, "err", "full", TRUE) EXCEPT !.contentPuts = cput]
       ELSE [feeds |-> [fds EXCEPT ![url] = f], stories |-> PutStories(sts, url, us),
             contents |-> cts1, ret |-> "ok", path |-> "full", storeFail |-> FALSE,
             feedPut |-> TRUE, storyPuts |-> { us[i].Id : i \in 1..m },
             contentPuts |-> cput]

\* the full branch: the stories are diffed and the Feed and the changed
\* stories are written
FullUpdate(fds, sts, cts, url, f1, hasUpdated, us, fromSub, t, fail) ==
    PutAll(fds, sts, cts, url, us, FullFeed(f1, hasUpdated, Len(us), fromSub, t), fail)

\* (variant: a Feed is created when none is found)
NotFoundCreates(fds, sts, cts, url, feedIn) ==
    [NoEffect([k \in DOMAIN fds \cup {url} |-> IF k = url THEN feedIn ELSE fds[k]],
              sts, cts, "ok", "notfound", FALSE) EXCEPT !.feedPut = TRUE]

\* gn.Get finds no Feed under url: "feed not found"
NotFound(fds, sts, cts, url, feedIn) == NoEffect(fds, sts, cts, "err", "notfound", FALSE)

updateFeed(fds, sts, cts, url, feedIn, ss, updateAll, fromSub, updateLast, t, fail) ==
    IF url \notin DOMAIN fds
    THEN NotFound(fds, sts, cts, url, feedIn)
    ELSE IF IsShortCircuit(fds[url], feedIn, updateAll, fromSub)
    THEN IF fail = 1
         THEN NoEffect(fds, sts, cts, "ok", "short", TRUE)
         ELSE [NoEffect(fds, sts, cts, "ok", "short", FALSE) EXCEPT
                 !.feeds = [fds EXCEPT ![url] =
                              ShortCircuitFeed(MergeFeed(fds[url], feedIn, updateLast, t), t)],
                 !.feedPut = TRUE]
    ELSE IF fail = -1
    THEN NoEffect(fds, sts, cts, "err", "full", FALSE)
    ELSE FullUpdate(fds, sts, cts, url, MergeFeed(fds[url], feedIn, updateLast, t),
                    ~IsZero(feedIn.Updated), UpdateStories(sts, url, ss, updateAll),
                    fromSub, t, fail)

\* the store operations of a call that can fail
FailPoints(fds, sts, url, feedIn, ss, updateAll, fromSub) ==
    IF url \notin DOMAIN fds THEN {0}
    ELSE IF IsShortCircuit(fds[url], feedIn, updateAll, fromSub) THEN {0, 1}
    ELSE -1..(Len(UpdateStories(sts, url, ss, updateAll)) + 1)


(***************************************************************************)
(* feedError of UpdateFeed: the backoff after a failed poll.               *)
(***************************************************************************)
MaxBackoff == 24 * 7

\* (variant: the delay grows with the error count without a cap)
BackoffHoursUncapped(errors) == IF errors = 1 THEN 0 ELSE errors + 1

\* the delay in hours, errors being the count already incremented
BackoffHours(errors) ==
    LET v == errors + 1
    IN IF v > MaxBackoff THEN MaxBackoff
       ELSE IF errors = 1 THEN 0
       ELSE v

\* (variant: the poll is rescheduled but the error is not counted)
feedErrorUncounted(f, t) ==
    [f EXCEPT !.NextUpdate = t + BackoffHours(f.Errors + 1)]

feedError(f, t) ==
    [f EXCEPT !.Errors = @ + 1, !.NextUpdate = t + BackoffHours(f.Errors + 1)]

(***************************************************************************)
(* Task names of UpdateFeeds.  A name is a sequence of bytes.  The name    *)
(* keeps the next-due time to the second: where names matter, instants are *)
(* read in ticks, several to the second.                                   *)
(***************************************************************************)
TicksPerSecond == 2
TicksPerHour == 3600 * TicksPerSecond
TimeWidth == 8        \* digits of the formatted time

\* (variant: the underscore is let through)
taskNameShouldEscapeButUnderscore(c) ==
    ~(c \in 97..122 \/ c \in 65..90 \/ c \in 48..57 \/ c = 45 \/ c = 95)

\* 'a'..'z', 'A'..'Z', '0'..'9' and '-' are kept; every other byte,
\* the underscore included, is escaped
taskNameShouldEscape(c) ==
    ~(c \in 97..122 \/ c \in 65..90 \/ c \in 48..57 \/ c = 45)

\* "0123456789ABCDEF"[n]
HexDigit(n) == IF n < 10 THEN 48 + n ELSE 55 + n

\* the second loop of taskNameEscape: '_' and two hex digits for an escaped
\* byte, the byte itself otherwise
RECURSIVE EscapeBytes(_)
EscapeBytes(s) ==
    IF s = <<>> THEN <<>>
    ELSE (IF taskNameShouldEscape(Head(s))
          THEN <<95, HexDigit(Head(s) \div 16), HexDigit(Head(s) % 16)>>
          ELSE <<Head(s)>>) \o EscapeBytes(Tail(s))

taskNameEscape(s) ==
    LET hexCount == Cardinality({ i \in 1..Len(s) : taskNameShouldEscape(s[i]) })
    IN IF hexCount = 0 THEN s ELSE EscapeBytes(s)

\* n in decimal, w digits wide
RECURSIVE Digits(_, _)
Digits(n, w) == IF w = 0 THEN <<>> ELSE Digits(n \div 10, w - 1) \o <<48 + (n % 10)>>

\* NextUpdate.UTC().Format("2006-01-02T15-04-05Z07-00"): the instant t, in
\* ticks, down to its second, in digits and the letter Z
FormatTime(t) == Digits(t \div TicksPerSecond, TimeWidth) \o <<90>>

\* fmt.Sprintf("%v_%v", <formatted next-due>, taskNameEscape(id))
TaskName(t, id) == FormatTime(t) \o <<95>> \o taskNameEscape(id)

\* the bytes of each feed URL
UrlBytes == [u \in Urls |-> <<117>>]

\* the query of UpdateFeeds: Filter("n <=", now)
IsDue(f, t) == f.NextUpdate <= t

(***************************************************************************)
(* State.                                                                  *)
(***************************************************************************)
VARIABLES
    now,        \* the clock, in hours
    feeds,      \* the store's Feed entities, by URL
    stories,    \* the store's Story entities, by (feed URL, story id)
    contents,   \* the keys of the stories that have a StoryContent entity
    failures,   \* failures injected so far
    pollRun,    \* history: the run of polls that fetched the same declared time
    lastOp,     \* history: the last handler run, what it was given and what it did
    backoff,    \* history: the delays of the failed polls in a row
    queue,      \* the poll tasks waiting in the task queue
    retained,   \* the names of run tasks the task queue still remembers
    subTasks,   \* the feeds with a subscribe task waiting in the task queue
    hub,        \* history: the last exchange with the hub and what it asked for
    tick,       \* the clock in ticks, where task names are followed
    due,        \* the next-due time of each feed in ticks, by the feed's id
    named,      \* history: the tasks the scans have named
    opml,       \* the subscription tree of a user
    lastMerge,  \* history: the last merge into the tree
    calls,      \* the calls of updateFeed under way, by the handler that made them
    fetching,   \* the call of fetchFeed under way
    purge,      \* the run of DeleteOldFeed under way
    blobs,      \* the run of DeleteBlobs under way
    escaped     \* the byte strings handed to taskNameEscape

vars == <<now, feeds, stories, contents, failures, pollRun, lastOp, backoff,
          queue, retained, subTasks, hub, tick, due, named, opml, lastMerge, calls,
          fetching, purge, blobs, escaped>>

\* the state of task naming, of the subscription tree, of the calls under way
naming == <<tick, due, named>>
merging == <<opml, lastMerge>>
racing == <<calls>>
rest == <<fetching, purge, blobs, escaped>>
later == <<naming, merging, racing, rest>>

NamingOff == tick = 0 /\ due = <<>> /\ named = {}
MergingOff == opml = <<>> /\ lastMerge = <<>>
RacingOff == calls = <<>>
FetchingOff == fetching = <<>>
PurgeOff == purge = <<>>
BlobsOff == blobs = <<>>
EscapedOff == escaped = <<>>
RestOff == FetchingOff /\ PurgeOff /\ BlobsOff /\ EscapedOff

\* the task queue
sched == <<queue, retained>>

\* the state the reconciliation handlers leave alone
others == <<backoff, sched, hub, later>>

\* no exchange with the hub yet
NoHub ==
    [kind |-> "none", url |-> "u", mode |-> "none", topic |-> "none", lease |-> 0,
     answer |-> "none", putOk |-> FALSE, at |-> ZeroTime,
     quietUntil |-> ZeroTime, early |-> FALSE]

\* no failed poll yet
NoBackoff == [n |-> 0, delay |-> 0, prev |-> 0]

Idle ==
    [handler |-> "none", outcome |-> "none", called |-> FALSE, url |-> "u",
     declared |-> ZeroTime, ss |-> <<>>,
     updateAll |-> FALSE, fromSub |-> FALSE, updateLast |-> FALSE,
     ret |-> "none", path |-> "none", storeFail |-> FALSE, feedPut |-> FALSE,
     storyPuts |-> {}, contentPuts |-> {}, errPut |-> "none", at |-> ZeroTime]

\* the record of a handler that did not call updateFeed
Returned(handler, outcome, url, t) ==
    [Idle EXCEPT !.handler = handler, !.outcome = outcome, !.url = url, !.at = t]

\* what a story list claims: each story's identity and content-updated time
Claimed(ss) == [i \in 1..Len(ss) |-> [Id |-> ss[i].Id, Updated |-> ss[i].Updated]]

\* the record of a handler that called updateFeed, r being the call's effect
Called(handler, outcome, url, d, ss, updateAll, fromSub, updateLast, r, t) ==
    [handler |-> handler, outcome |-> outcome, called |-> TRUE, url |-> url,
     declared |-> d, ss |-> Claimed(ss),
     updateAll |-> updateAll, fromSub |-> fromSub, updateLast |-> updateLast,
     ret |-> r.ret, path |-> r.path, storeFail |-> r.storeFail, feedPut |-> r.feedPut,
     storyPuts |-> r.storyPuts, contentPuts |-> r.contentPuts, errPut |-> "none",
     at |-> t]

NoRun == [t |-> ZeroTime, n |-> 0]

\* The run of polls after a poll: a poll that stores the time d it fetched
\* starts a run of d; a later poll that fetches d again and is not failed by
\* the store extends it; anything else ends it.
NextRun(run, d, r) ==
    IF IsZero(d) \/ r.ret # "ok" \/ r.storeFail THEN NoRun
    ELSE IF run.n >= 1 /\ run.t = d THEN [t |-> d, n |-> 2]
    ELSE IF r.path = "full" THEN [t |-> d, n |-> 1]
    ELSE NoRun

\* The feeds the store may hold at the start: one just created, one long
\* polled and failing, and one no user has viewed for three days.
InitFeeds ==
    { [Updated |-> x[1], Date |-> x[2], Average |-> x[3], LastViewed |-> x[4],
       NextUpdate |-> StartTime, Errors |-> x[5], Subscribed |-> ZeroTime] :
        x \in { <<ZeroTime, ZeroTime, 0, StartTime, 0>>,
                <<StartTime - 10, StartTime - 20, 8, StartTime, MaxBackoff - 1>>,
                <<StartTime - 10, StartTime - 20, 8, StartTime - 72, 0>> } }

Init ==
    /\ now = StartTime
    /\ feeds \in {<<>>} \cup { [u \in Urls |-> f] : f \in InitFeeds }
    /\ stories = <<>>
    /\ contents = {}
    /\ failures = 0
    /\ pollRun = NoRun
    /\ lastOp = Idle
    /\ backoff = NoBackoff
    /\ queue = {}
    /\ retained = {}
    /\ subTasks = {}
    /\ hub = NoHub
    /\ NamingOff /\ MergingOff /\ RacingOff /\ RestOff


(***************************************************************************)
(* Handlers.  Each runs as one step.                                       *)
(***************************************************************************)
Tick ==
    /\ now < StartTime + MaxTicks
    /\ now' = now + 1
    /\ lastOp' = Idle
    /\ UNCHANGED <<feeds, stories, contents, failures, pollRun>>
    /\ UNCHANGED <<others, subTasks>>

\* the store after a put of Feed f under url
PutFeed(fds, url, f) ==
    [k \in DOMAIN fds \cup {url} |-> IF k = url THEN f ELSE fds[k]]

\* the store and the histories after a call of updateFeed with effect r
Apply(r) ==
    /\ feeds' = r.feeds
    /\ stories' = r.stories
    /\ contents' = r.contents

\* UpdateFeed: the poll task of one feed.  last is the "last" form value.
UpdateFeedGone(url, last) ==
    /\ url \notin DOMAIN feeds
    /\ lastOp' = Returned("UpdateFeed", "nse", url, now)
    /\ UNCHANGED <<now, feeds, stories, contents, failures, pollRun>>
    /\ UNCHANGED <<others, subTasks>>

UpdateFeedNotDue(url, last) ==
    /\ url \in DOMAIN feeds
    /\ ~last
    /\ now < feeds[url].NextUpdate
    /\ lastOp' = Returned("UpdateFeed", "notdue", url, now)
    /\ UNCHANGED <<now, feeds, stories, contents, failures, pollRun>>
    /\ UNCHANGED <<others, subTasks>>

\* fetchFeed returns an error (the fetch failed or the document did not
\* parse): feedError counts it and reschedules the feed
PollFetchError(url, last, putFails) ==
    /\ url \in DOMAIN feeds
    /\ last \/ ~(now < feeds[url].NextUpdate)
    /\ feeds' = IF putFails THEN feeds
                ELSE PutFeed(feeds, url, feedError(feeds[url], now))
    /\ pollRun' = NoRun
    /\ lastOp' = [Returned("UpdateFeed", "fetcherr", url, now) EXCEPT
                    !.updateLast = last,
                    !.errPut = IF putFails THEN "failed" ELSE "ok"]
    /\ subTasks' = Subscribe(subTasks, url, feeds[url], now)
    /\ UNCHANGED <<now, stories, contents>>

UpdateFeedFetchError(url, last, putFails) ==
    /\ failures < MaxFailures
    /\ failures' = failures + 1
    /\ PollFetchError(url, last, putFails)
    /\ UNCHANGED others

UpdateFeedFetched(url, last, d, ss) ==
    /\ url \in DOMAIN feeds
    /\ last \/ ~(now < feeds[url].NextUpdate)
    /\ \E fail \in FailPoints(feeds, stories, url, ParsedFeed(d), ss, FALSE, FALSE) :
       \E r \in {updateFeed(feeds, stories, contents, url, ParsedFeed(d), ss,
                            FALSE, FALSE, last, now, fail)} :
       \E putFails \in IF r.ret = "err" THEN BOOLEAN ELSE {FALSE} :
          /\ (fail # 0 \/ putFails) => failures < MaxFailures
          /\ failures' = failures + (IF fail # 0 \/ putFails THEN 1 ELSE 0)
          /\ stories' = r.stories
          /\ contents' = r.contents
          /\ feeds' = IF r.ret = "ok" \/ putFails THEN r.feeds
                      ELSE PutFeed(r.feeds, url, feedError(feeds[url], now))
          /\ pollRun' = NextRun(pollRun, d, r)
          /\ lastOp' = [Called("UpdateFeed", r.ret, url, d, ss, FALSE, FALSE, last, r, now)
                          EXCEPT !.errPut = IF r.ret = "ok" THEN "none"
                                            ELSE IF putFails THEN "failed" ELSE "ok"]
    /\ subTasks' = Subscribe(subTasks, url, feeds[url], now)
    /\ UNCHANGED now
    /\ UNCHANGED others

UpdateFeed(url, last) ==
    \/ UpdateFeedGone(url, last)
    \/ UpdateFeedNotDue(url, last)
    \/ \E putFails \in BOOLEAN : UpdateFeedFetchError(url, last, putFails)
    \/ \E d \in FeedTimes, ss \in ParsedStories(now) : UpdateFeedFetched(url, last, d, ss)

\* SubscribeCallback, POST: a hub pushes a feed document.
PushGone(url) ==
    /\ url \notin DOMAIN feeds
    /\ lastOp' = Returned("SubscribeCallback", "notfound", url, now)
    /\ UNCHANGED <<now, feeds, stories, contents, failures, pollRun>>
    /\ UNCHANGED <<others, subTasks>>

\* (variant: a push for a feed nobody views is taken all the same)
PushNotViewedTaken(url) ==
    /\ url \in DOMAIN feeds
    /\ NotViewed(feeds[url], now)
    /\ feeds' = PutFeed(feeds, url, PushWait(scheduleNextUpdate(feeds[url], now), TRUE, now))
    /\ lastOp' = Returned("SubscribeCallback", "notviewed", url, now)
    /\ UNCHANGED <<now, stories, contents, failures, pollRun>>
    /\ UNCHANGED <<others, subTasks>>

PushNotViewed(url) ==
    /\ url \in DOMAIN feeds
    /\ NotViewed(feeds[url], now)
    /\ lastOp' = Returned("SubscribeCallback", "notviewed", url, now)
    /\ UNCHANGED <<now, feeds, stories, contents, failures, pollRun>>
    /\ UNCHANGED <<others, subTasks>>

PushParseError(url) ==
    /\ url \in DOMAIN feeds
    /\ ~NotViewed(feeds[url], now)
    /\ lastOp' = Returned("SubscribeCallback", "parseerr", url, now)
    /\ UNCHANGED <<now, feeds, stories, contents, failures, pollRun>>
    /\ UNCHANGED <<others, subTasks>>

PushParsed(url, d, ss) ==
    /\ url \in DOMAIN feeds
    /\ ~NotViewed(feeds[url], now)
    /\ \E fail \in FailPoints(feeds, stories, url, ParsedFeed(d), ss, FALSE, TRUE) :
       \E r \in {updateFeed(feeds, stories, contents, url, ParsedFeed(d), ss,
                            FALSE, TRUE, FALSE, now, fail)} :
          /\ fail # 0 => failures < MaxFailures
          /\ failures' = failures + (IF fail # 0 THEN 1 ELSE 0)
          /\ Apply(r)
          /\ lastOp' = Called("SubscribeCallback", r.ret, url, d, ss, FALSE, TRUE, FALSE, r, now)
    /\ pollRun' = NoRun
    /\ UNCHANGED now
    /\ UNCHANGED <<others, subTasks>>

SubscribeCallbackPost(url) ==
    \/ PushGone(url)
    \/ PushNotViewed(url)
    \/ PushParseError(url)
    \/ \E d \in FeedTimes, ss \in ParsedStories(now) : PushParsed(url, d, ss)

\* updateFeed called with updateAll set: every incoming story is rewritten.
ForceUpdate(url, d, ss) ==
    /\ \E fail \in FailPoints(feeds, stories, url, ParsedFeed(d), ss, TRUE, FALSE) :
       \E r \in {updateFeed(feeds, stories, contents, url, ParsedFeed(d), ss,
                            TRUE, FALSE, FALSE, now, fail)} :
          /\ fail # 0 => failures < MaxFailures
          /\ failures' = failures + (IF fail # 0 THEN 1 ELSE 0)
          /\ Apply(r)
          /\ lastOp' = Called("updateFeed", r.ret, url, d, ss, TRUE, FALSE, FALSE, r, now)
    /\ pollRun' = NoRun
    /\ UNCHANGED now
    /\ UNCHANGED <<others, subTasks>>

\* addFeed: a user subscribes to url.
AddFeedKnown(url) ==
    /\ url \in DOMAIN feeds
    /\ lastOp' = Returned("addFeed", "known", url, now)
    /\ UNCHANGED <<now, feeds, stories, contents, failures, pollRun>>
    /\ UNCHANGED <<others, subTasks>>

AddFeedFetchError(url) ==
    /\ url \notin DOMAIN feeds
    /\ failures < MaxFailures
    /\ failures' = failures + 1
    /\ lastOp' = Returned("addFeed", "fetcherr", url, now)
    /\ UNCHANGED <<now, feeds, stories, contents, pollRun>>
    /\ UNCHANGED <<others, subTasks>>

\* the Feed addFeed puts before it reconciles
NewFeed(feedIn, t) ==
    [feedIn EXCEPT !.Updated = ZeroTime, !.NextUpdate = ZeroTime, !.LastViewed = t]

\* s.Created = s.Published
FirstStories(ss) == [i \in 1..Len(ss) |-> [ss[i] EXCEPT !.Created = ss[i].Published]]

AddFeedFetched(url, d, ss) ==
    /\ url \notin DOMAIN feeds
    /\ \E putFails \in BOOLEAN :
       \E fds1 \in {IF putFails THEN feeds ELSE PutFeed(feeds, url, NewFeed(ParsedFeed(d), now))} :
       \E fail \in FailPoints(fds1, stories, url, ParsedFeed(d), FirstStories(ss), FALSE, FALSE) :
       \E r \in {updateFeed(fds1, stories, contents, url, ParsedFeed(d), FirstStories(ss),
                            FALSE, FALSE, FALSE, now, fail)} :
          /\ (fail # 0 \/ putFails) => failures < MaxFailures
          /\ failures' = failures + (IF fail # 0 \/ putFails THEN 1 ELSE 0)
          /\ Apply(r)
          /\ lastOp' = Called("addFeed", r.ret, url, d, FirstStories(ss), FALSE, FALSE, FALSE, r, now)
    /\ pollRun' = NoRun
    /\ UNCHANGED now
    /\ UNCHANGED <<others, subTasks>>

AddFeed(url) ==
    \/ AddFeedKnown(url)
    \/ AddFeedFetchError(url)
    \/ \E d \in FeedTimes, ss \in ParsedStories(now) : AddFeedFetched(url, d, ss)

Next ==
    \/ Tick
    \/ \E url \in Urls, last \in BOOLEAN : UpdateFeed(url, last)
    \/ \E url \in Urls : SubscribeCallbackPost(url)
    \/ \E url \in Urls, d \in FeedTimes, ss \in ParsedStories(now) : ForceUpdate(url, d, ss)
    \/ \E url \in Urls : AddFeed(url)

Spec == Init /\ [][Next]_vars


(***************************************************************************)
(* A feed whose polls keep failing: each poll task runs when the feed is   *)
(* due, its fetch fails, and feedError reschedules the feed.               *)
(***************************************************************************)
BackoffInit ==
    /\ now = StartTime
    /\ feeds \in { [u \in Urls |-> f] : f \in InitFeeds }
    /\ stories = <<>>
    /\ contents = {}
    /\ failures = 0
    /\ pollRun = NoRun
    /\ lastOp = Idle
    /\ backoff = NoBackoff
    /\ queue = {}
    /\ retained = {}
    /\ subTasks = {}
    /\ hub = NoHub
    /\ NamingOff /\ MergingOff /\ RacingOff /\ RestOff

\* time passes until the feed is due
WaitUntilDue(url) ==
    /\ url \in DOMAIN feeds
    /\ now < feeds[url].NextUpdate
    /\ now' = feeds[url].NextUpdate
    /\ UNCHANGED <<feeds, stories, contents, failures, pollRun, lastOp, backoff, sched,
                   subTasks, hub, later>>

\* the poll task of the due feed fails once more
PollFailsAgain(url) ==
    /\ url \in DOMAIN feeds
    /\ feeds[url].Errors < MaxErrors
    /\ PollFetchError(url, FALSE, FALSE)
    /\ backoff' = [n |-> backoff.n + 1,
                   delay |-> feeds'[url].NextUpdate - now,
                   prev |-> backoff.delay]
    /\ UNCHANGED <<failures, sched, hub, later>>

BackoffNext ==
    \/ \E url \in Urls : WaitUntilDue(url)
    \/ \E url \in Urls : PollFailsAgain(url)

BackoffSpec == BackoffInit /\ [][BackoffNext]_vars


(***************************************************************************)
(* The scheduler and a feed whose polls keep failing: UpdateFeeds enqueues *)
(* a named poll task for each due feed, the queue delivers it to           *)
(* UpdateFeed, the fetch fails.  The queue refuses a task whose name it    *)
(* knows and forgets the name of a run task after its retention window.    *)
(***************************************************************************)
\* (variant: the scan passes over the feeds that have failed)
DueTasksHealthy(fds, t) ==
    { [name |-> TaskName(fds[u].NextUpdate * TicksPerHour, UrlBytes[u]), feed |-> u] :
        u \in { v \in DOMAIN fds : IsDue(fds[v], t) /\ fds[v].Errors = 0 } }

\* the tasks a scan at t makes: one for each due feed
DueTasks(fds, t) ==
    { [name |-> TaskName(fds[u].NextUpdate * TicksPerHour, UrlBytes[u]), feed |-> u] :
        u \in { v \in DOMAIN fds : IsDue(fds[v], t) } }

\* the queue takes a task unless it knows the task's name
Enqueue(q, kept, tasks) ==
    q \cup { k \in tasks : k.name \notin kept \cup { x.name : x \in q } }

UpdateFeeds ==
    /\ queue' = Enqueue(queue, retained, DueTasks(feeds, now))
    /\ UNCHANGED <<now, feeds, stories, contents, failures, pollRun, lastOp, backoff,
                   retained, subTasks, hub, later>>

\* the queue delivers a poll task: UpdateFeed runs, and where it comes to
\* fetch, the fetch fails
DeliverPoll(task) ==
    /\ task \in queue
    /\ backoff.n < MaxPolls
    /\ queue' = queue \ {task}
    /\ retained' = retained \cup {task.name}
    /\ UNCHANGED <<hub, later>>
    /\ IF task.feed \in DOMAIN feeds /\ ~(now < feeds[task.feed].NextUpdate)
       THEN \E putFails \in BOOLEAN :
               /\ putFails => failures < MaxFailures
               /\ failures' = failures + (IF putFails THEN 1 ELSE 0)
               /\ PollFetchError(task.feed, FALSE, putFails)
               /\ backoff' = [n |-> backoff.n + 1,
                              delay |-> feeds'[task.feed].NextUpdate - now,
                              prev |-> backoff.delay]
       ELSE /\ lastOp' = Returned("UpdateFeed",
                                  IF task.feed \in DOMAIN feeds THEN "notdue" ELSE "nse",
                                  task.feed, now)
            /\ UNCHANGED <<now, feeds, stories, contents, failures, pollRun, backoff,
                           subTasks>>

\* the retention window of a run task's name ends
ExpireName(name) ==
    /\ name \in retained
    /\ retained' = retained \ {name}
    /\ UNCHANGED <<now, feeds, stories, contents, failures, pollRun, lastOp, backoff,
                   queue, subTasks, hub, later>>

SchedInit == BackoffInit

SchedNext ==
    \/ UpdateFeeds
    \/ \E task \in queue : DeliverPoll(task)
    \/ \E name \in retained : ExpireName(name)
    \/ \E url \in Urls : WaitUntilDue(url)

\* the cron trigger keeps scanning, the queue keeps delivering and
\* forgetting, time keeps passing
SchedFair ==
    /\ WF_vars(UpdateFeeds)
    /\ WF_vars(\E task \in queue : DeliverPoll(task))
    /\ WF_vars(\E name \in retained : ExpireName(name))
    /\ WF_vars(\E url \in Urls : WaitUntilDue(url))

SchedSpec == SchedInit /\ [][SchedNext]_vars /\ SchedFair


(***************************************************************************)
(* Task names over the scans of UpdateFeeds.  The clock and the next-due   *)
(* times are in ticks here; a feed is known by the bytes of its id.        *)
(***************************************************************************)
\* the feed ids "_" and "_5F"
FeedIds == { <<95>>, <<95, 53, 70>> }

NameStart == StartTime * TicksPerHour

\* what a poll adds to now for the next-due time: nothing on the first error
\* in a row, whole hours otherwise
PollDelays == {0, TicksPerHour}

NameInit ==
    /\ now = StartTime
    /\ feeds = <<>>
    /\ stories = <<>>
    /\ contents = {}
    /\ failures = 0
    /\ pollRun = NoRun
    /\ lastOp = Idle
    /\ backoff = NoBackoff
    /\ queue = {}
    /\ retained = {}
    /\ subTasks = {}
    /\ hub = NoHub
    /\ tick = NameStart
    /\ due \in [FeedIds -> {NameStart - 1, NameStart}]
    /\ named = {}
    /\ MergingOff /\ RacingOff /\ RestOff

NameTick ==
    /\ tick < NameStart + MaxNameTicks
    /\ tick' = tick + 1
    /\ UNCHANGED <<now, feeds, stories, contents, failures, pollRun, lastOp, backoff,
                   sched, subTasks, hub, due, named, merging, racing, rest>>

\* the tasks a scan at tick t makes, with the feed and the next-due time each
\* is made for
NamedTasks(nextDue, t) ==
    { [id |-> id, n |-> nextDue[id], name |-> TaskName(nextDue[id], id)] :
        id \in { i \in DOMAIN nextDue : nextDue[i] <= t } }

\* UpdateFeeds over the feeds of this clock
ScanNames ==
    /\ named' = named \cup NamedTasks(due, tick)
    /\ queue' = Enqueue(queue, retained,
                        { [name |-> m.name, feed |-> m.id] : m \in NamedTasks(due, tick) })
    /\ UNCHANGED <<now, feeds, stories, contents, failures, pollRun, lastOp, backoff,
                   retained, subTasks, hub, tick, due, merging, racing, rest>>

\* a poll task runs: UpdateFeed returns at once when the feed is not due and
\* leaves it with a new next-due time otherwise
RunPoll(task, d) ==
    /\ task \in queue
    /\ queue' = queue \ {task}
    /\ retained' = retained \cup {task.name}
    /\ due' = IF tick < due[task.feed] THEN due
              ELSE [due EXCEPT ![task.feed] = tick + d]
    /\ UNCHANGED <<now, feeds, stories, contents, failures, pollRun, lastOp, backoff,
                   subTasks, hub, tick, named, merging, racing, rest>>

NameNext ==
    \/ NameTick
    \/ ScanNames
    \/ \E task \in queue, d \in PollDelays : RunPoll(task, d)

NameSpec == NameInit /\ [][NameNext]_vars


(***************************************************************************)
(* mergeUserOpml: incoming outlines merged into a user's outline tree.     *)
(* An outline is its Title, its XmlUrl ("" for a folder) and its child     *)
(* outlines; the tree is the decoded value of UserData.Opml.               *)
(***************************************************************************)
Leaf(u) == [Title |-> u, XmlUrl |-> u, Outline |-> <<>>]

Folder(title, kids) == [Title |-> title, XmlUrl |-> "", Outline |-> kids]

MergeUrls == {"a", "b", "c"}

\* what an incoming folder may hold: a leaf, a folder of one leaf, or an
\* outline that has a feed URL and a child of its own
Inner ==
    { Leaf(u) : u \in MergeUrls }
      \cup { Folder("G", <<Leaf(u)>>) : u \in MergeUrls }
      \cup { [Title |-> "a", XmlUrl |-> "a", Outline |-> <<Leaf("b")>>] }

\* incoming outlines: a leaf, or a folder (labelled or not) with one child
Incoming ==
    { Leaf(u) : u \in MergeUrls }
      \cup { Folder(t, <<k>>) : t \in {"", "F"}, k \in Inner }

\* the urls map built from the tree: the top-level outlines that have a URL
\* and every child of a top-level folder
IndexedUrls(fs) ==
    { fs[i].XmlUrl : i \in { k \in 1..Len(fs) : fs[k].XmlUrl # "" } }
      \cup UNION { { fs[i].Outline[j].XmlUrl : j \in 1..Len(fs[i].Outline) } :
                     i \in { k \in 1..Len(fs) : fs[k].XmlUrl = "" } }

\* (variant: a labelled outline always gets a new folder of its own)
mergeOutlineOwnFolder(st, label, outline) ==
    IF outline.XmlUrl \in st.urls THEN st
    ELSE [urls |-> st.urls \cup {outline.XmlUrl},
          fs |-> IF label = "" THEN Append(st.fs, outline)
                 ELSE Append(st.fs, Folder(label, <<outline>>))]

\* st is the tree fs and the urls map
mergeOutline(st, label, outline) ==
    IF outline.XmlUrl \in st.urls THEN st
    ELSE [urls |-> st.urls \cup {outline.XmlUrl},
          fs |-> IF label = "" THEN Append(st.fs, outline)
                 ELSE IF \E i \in 1..Len(st.fs) :
                            st.fs[i].Title = label /\ st.fs[i].XmlUrl = ""
                 THEN LET i == CHOOSE k \in 1..Len(st.fs) :
                                 /\ st.fs[k].Title = label /\ st.fs[k].XmlUrl = ""
                                 /\ \A m \in 1..(k - 1) :
                                       ~(st.fs[m].Title = label /\ st.fs[m].XmlUrl = "")
                      IN [st.fs EXCEPT ![i].Outline = Append(@, outline)]
                 ELSE Append(st.fs, Folder(label, <<outline>>))]

RECURSIVE MergeChildren(_, _, _)
MergeChildren(st, label, kids) ==
    IF kids = <<>> THEN st
    ELSE MergeChildren(mergeOutline(st, label, Head(kids)), label, Tail(kids))

RECURSIVE MergeOutlines(_, _)
MergeOutlines(st, outlines) ==
    IF outlines = <<>> THEN st
    ELSE MergeOutlines(IF Head(outlines).XmlUrl # ""
                       THEN mergeOutline(st, "", Head(outlines))
                       ELSE MergeChildren(st, Head(outlines).Title, Head(outlines).Outline),
                       Tail(outlines))

mergeUserOpml(fs, outlines) ==
    MergeOutlines([fs |-> fs, urls |-> IndexedUrls(fs)], outlines).fs

MergeInit ==
    /\ now = StartTime
    /\ feeds = <<>>
    /\ stories = <<>>
    /\ contents = {}
    /\ failures = 0
    /\ pollRun = NoRun
    /\ lastOp = Idle
    /\ backoff = NoBackoff
    /\ queue = {}
    /\ retained = {}
    /\ subTasks = {}
    /\ hub = NoHub
    /\ NamingOff /\ RacingOff /\ RestOff
    /\ opml = <<>>
    /\ lastMerge = [n |-> 0, before |-> <<>>, incoming |-> <<>>]

\* ImportOpmlTask's transaction: the tree is read, merged and put
MergeUserOpml(outlines) ==
    /\ lastMerge.n < MaxMerges
    /\ opml' = mergeUserOpml(opml, outlines)
    /\ lastMerge' = [n |-> lastMerge.n + 1, before |-> opml, incoming |-> outlines]
    /\ UNCHANGED <<now, feeds, stories, contents, failures, pollRun, lastOp, backoff,
                   sched, subTasks, hub, naming, racing, rest>>

MergeNext ==
    \E outlines \in UNION { [1..n -> Incoming] : n \in 1..MaxIncoming } :
        MergeUserOpml(outlines)

MergeSpec == MergeInit /\ [][MergeNext]_vars

\* the feed URLs of a list of outlines, at every depth, one entry for each
\* outline that has one
RECURSIVE UrlList(_)
UrlList(outlines) ==
    IF outlines = <<>> THEN <<>>
    ELSE (IF Head(outlines).XmlUrl # "" THEN <<Head(outlines).XmlUrl>> ELSE <<>>)
           \o UrlList(Head(outlines).Outline) \o UrlList(Tail(outlines))

\* the feed URLs at top level or one level under a top-level folder
ShallowUrls(fs) == IndexedUrls(fs) \ {""}

\* every entry of tree a is in tree b, at its place
KeepsEntries(a, b) ==
    /\ Len(a) <= Len(b)
    /\ \A i \in 1..Len(a) :
         /\ b[i].Title = a[i].Title
         /\ b[i].XmlUrl = a[i].XmlUrl
         /\ Len(a[i].Outline) <= Len(b[i].Outline)
         /\ SubSeq(b[i].Outline, 1, Len(a[i].Outline)) = a[i].Outline


(***************************************************************************)
(* fetchFeed: the fetch of a feed document, with autodiscovery.  A URL     *)
(* string is written as its scheme, host and path; BadUrl is a string      *)
(* url.Parse rejects.  fetchFeed calls itself as its last act, so a call   *)
(* is followed as a loop over its invocations.                             *)
(***************************************************************************)
Schemes == {"", "http"}
Hosts == {"", "h", "craigslist.org"}
Paths == {"", "p", "q"}

UrlStrings == [scheme : Schemes, host : Hosts, path : Paths]

BadUrl == [scheme |-> "%", host |-> "", path |-> ""]

\* url.Parse
ParseUrl(str) == [err |-> str = BadUrl, u |-> str]

\* URL.String
UrlString(u) == u

\* what the server may answer to one GET: no answer, a status other than
\* 200, a body over the size limit, a feed document, or an HTML document
\* whose autodiscovery link is the string auto
Responses ==
    { [kind |-> k, auto |-> BadUrl] : k \in {"neterr", "status", "toolarge", "feed"} }
      \cup { [kind |-> "html", auto |-> a] : a \in UrlStrings \cup {BadUrl} }

Blocked(host) == host = "craigslist.org"

\* (variant: autodiscovery is attempted on every hop)
DiscoversOnEveryHop(origUrl, fetchUrl) == TRUE

\* autodiscovery is attempted only when the URL fetched is the original one
Discovers(origUrl, fetchUrl) == origUrl = fetchUrl

\* the autodiscovery link resolved against the URL u that was fetched
Resolved(auto, u) ==
    IF ParseUrl(auto).err THEN auto
    ELSE UrlString([ParseUrl(auto).u EXCEPT
                      !.scheme = IF @ = "" THEN u.scheme ELSE @,
                      !.host = IF @ = "" THEN u.host ELSE @])

NoFetch ==
    [pc |-> "idle", origUrl |-> BadUrl, fetchUrl |-> BadUrl, gets |-> 0, hops |-> 0,
     result |-> "none"]

FetchInit ==
    /\ now = StartTime
    /\ feeds = <<>>
    /\ stories = <<>>
    /\ contents = {}
    /\ failures = 0
    /\ pollRun = NoRun
    /\ lastOp = Idle
    /\ backoff = NoBackoff
    /\ queue = {}
    /\ retained = {}
    /\ subTasks = {}
    /\ hub = NoHub
    /\ NamingOff /\ MergingOff /\ RacingOff
    /\ PurgeOff /\ BlobsOff /\ EscapedOff
    /\ fetching = NoFetch

fetchFrame ==
    <<now, feeds, stories, contents, failures, pollRun, lastOp, backoff, sched,
      subTasks, hub, naming, merging, racing, purge, blobs, escaped>>

\* UpdateFeed and addFeed call fetchFeed(c, url, url)
CallFetchFeed(url) ==
    /\ fetching.pc = "idle"
    /\ fetching' = [fetching EXCEPT !.pc = "call", !.origUrl = url, !.fetchUrl = url]
    /\ UNCHANGED fetchFrame

Ended(f, result) == [f EXCEPT !.pc = "done", !.result = result]

\* one invocation of fetchFeed, the server answering resp to its GET
FetchFeedBody(f, resp) ==
    IF ParseUrl(f.fetchUrl).err THEN Ended(f, "err")
    ELSE LET u0 == ParseUrl(f.fetchUrl).u
             u1 == IF u0.host = "" THEN [u0 EXCEPT !.host = u0.path, !.path = ""] ELSE u0
             u == IF u1.scheme = "" THEN [u1 EXCEPT !.scheme = "http"] ELSE u1
             origUrl == IF u1.scheme = "" THEN UrlString(u) ELSE f.origUrl
             fetchUrl == IF u1.scheme = "" THEN UrlString(u) ELSE f.fetchUrl
             got == [f EXCEPT !.origUrl = origUrl, !.fetchUrl = fetchUrl,
                              !.gets = @ + 1]
         IN IF Blocked(u1.host) THEN Ended(f, "err")
            ELSE IF resp.kind \in {"neterr", "status", "toolarge"} THEN Ended(got, "err")
            ELSE IF resp.kind = "html" /\ Discovers(origUrl, fetchUrl)
                    /\ Resolved(resp.auto, u) # fetchUrl
            THEN [got EXCEPT !.fetchUrl = Resolved(resp.auto, u)]
            ELSE Ended(got, "parsed")

FetchFeedStep(resp) ==
    /\ fetching.pc = "call"
    /\ fetching.gets < MaxGets
    /\ fetching' = [FetchFeedBody(fetching, resp) EXCEPT !.hops = @ + 1]
    /\ UNCHANGED fetchFrame

FetchNext ==
    \/ \E url \in UrlStrings \cup {BadUrl} : CallFetchFeed(url)
    \/ \E resp \in Responses : FetchFeedStep(resp)

FetchSpec == FetchInit /\ [][FetchNext]_vars


(***************************************************************************)
(* DeleteOldFeed: the task the retention sweep queues for one feed.        *)
(***************************************************************************)
RetentionHours == 24 * 90

\* timeMax, the next-due time the sweep selects feeds by
TimeMax == 1000000

PurgeStart == RetentionHours + StartTime

PurgeStoryIds == 1..MaxPurgeStories

PurgeStory(id) ==
    [Id |-> id, Updated |-> ZeroTime, Created |-> StartTime, Published |-> ZeroTime]

\* the feeds a sweep may meet: never viewed, last viewed exactly the
\* retention period ago, viewed ten hours ago
PurgeFeeds ==
    { [Updated |-> StartTime, Date |-> StartTime, Average |-> 8, LastViewed |-> v,
       NextUpdate |-> n, Errors |-> 0, Subscribed |-> ZeroTime] :
        v \in {ZeroTime, PurgeStart - RetentionHours, PurgeStart - 10},
        n \in {PurgeStart, TimeMax} }

KeysOf(url, ids) == { StoryKey(url, id) : id \in ids }

NoPurge == [outcome |-> "none", url |-> "u", putOk |-> FALSE]

PurgeInit ==
    /\ now = PurgeStart
    /\ feeds \in {<<>>} \cup { [u \in Urls |-> f] : f \in PurgeFeeds }
    /\ \E ids \in SUBSET PurgeStoryIds :
         /\ stories = IF feeds = <<>> THEN <<>>
                      ELSE [k \in KeysOf("u", ids) |-> PurgeStory(k[2])]
         /\ contents \in IF feeds = <<>> THEN {{}} ELSE SUBSET KeysOf("u", ids)
    /\ failures = 0
    /\ pollRun = NoRun
    /\ lastOp = Idle
    /\ backoff = NoBackoff
    /\ queue = {}
    /\ retained = {}
    /\ subTasks = {}
    /\ hub = NoHub
    /\ NamingOff /\ MergingOff /\ RacingOff
    /\ FetchingOff /\ BlobsOff /\ EscapedOff
    /\ purge = NoPurge

purgeFrame ==
    <<now, failures, pollRun, lastOp, backoff, sched, subTasks, hub,
      naming, merging, racing, fetching, blobs, escaped>>

\* the Story and StoryContent keys under the Feed of url
StoryKeysOf(sts, url) == { k \in DOMAIN sts : k[1] = url }
ContentKeysOf(cts, url) == { k \in cts : k[1] = url }

\* the Feed store after the purge of url: the Feed is put back with its
\* next-due an hour past timeMax
PurgedFeeds(fds, url, f) == [fds EXCEPT ![url] = [f EXCEPT !.NextUpdate = TimeMax + 1]]

\* DeleteOldFeed returns before it writes: no Feed, or a feed viewed within
\* the retention period, or a key query that fails
DeleteOldFeedReturns(url, queryFails) ==
    /\ purge.outcome = "none"
    /\ purge' = [NoPurge EXCEPT !.url = url,
                  !.outcome = IF url \notin DOMAIN feeds THEN "nofeed"
                              ELSE IF feeds[url].LastViewed > now - RetentionHours
                              THEN "viewed"
                              ELSE "queryerr"]
    /\ IF url \in DOMAIN feeds
       THEN queryFails \/ feeds[url].LastViewed > now - RetentionHours
       ELSE TRUE
    /\ UNCHANGED <<feeds, stories, contents, purgeFrame>>

\* DeleteOldFeed on a feed not viewed within the retention period: the Feed
\* is put, then the keys found are deleted.  putFails: the put fails (and is
\* logged); left: the keys a failing DeleteMulti leaves in the store.
DeleteOldFeedPurges(url, putFails, left) ==
    /\ purge.outcome = "none"
    /\ url \in DOMAIN feeds
    /\ ~(feeds[url].LastViewed > now - RetentionHours)
    /\ left \subseteq StoryKeysOf(stories, url)
    /\ feeds' = IF putFails THEN feeds ELSE PurgedFeeds(feeds, url, feeds[url])
    /\ stories' = [k \in DOMAIN stories \ (StoryKeysOf(stories, url) \ left) |-> stories[k]]
    /\ contents' = contents \ (ContentKeysOf(contents, url) \ left)
    /\ purge' = [url |-> url, putOk |-> ~putFails,
                 outcome |-> IF StoryKeysOf(stories, url) \cup ContentKeysOf(contents, url) = {}
                             THEN "nokeys"
                             ELSE IF left = {} THEN "purged" ELSE "delerr"]
    /\ UNCHANGED purgeFrame

\* a later delivery of the task, or the next sweep
PurgeAgain ==
    /\ purge.outcome # "none"
    /\ purge' = NoPurge
    /\ UNCHANGED <<feeds, stories, contents, purgeFrame>>

PurgeNext ==
    \/ \E url \in Urls, queryFails \in BOOLEAN : DeleteOldFeedReturns(url, queryFails)
    \/ \E url \in Urls, putFails \in BOOLEAN :
          \E left \in SUBSET KeysOf(url, PurgeStoryIds) :
             DeleteOldFeedPurges(url, putFails, left)
    \/ PurgeAgain

PurgeSpec == PurgeInit /\ [][PurgeNext]_vars


(***************************************************************************)
(* DeleteBlobs: the loop spawns one goroutine for each batch of blob keys  *)
(* and then waits for them.  blobs holds the place of the loop, the state  *)
(* of each goroutine, the counter of the WaitGroup and the flag something. *)
(***************************************************************************)
Batches == 1..MaxBatches

BlobInit ==
    /\ now = StartTime
    /\ feeds = <<>>
    /\ stories = <<>>
    /\ contents = {}
    /\ failures = 0
    /\ pollRun = NoRun
    /\ lastOp = Idle
    /\ backoff = NoBackoff
    /\ queue = {}
    /\ retained = {}
    /\ subTasks = {}
    /\ hub = NoHub
    /\ NamingOff /\ MergingOff /\ RacingOff
    /\ FetchingOff /\ PurgeOff /\ EscapedOff
    /\ \E n \in 0..MaxBatches :
         blobs = [pc |-> "loop", found |-> n, spawned |-> 0, counter |-> 0,
                  gor |-> [i \in Batches |-> "none"], something |-> FALSE,
                  rescheduled |-> FALSE, running |-> 0]

blobFrame ==
    <<now, feeds, stories, contents, failures, pollRun, lastOp, backoff, sched,
      subTasks, hub, naming, merging, racing, fetching, purge, escaped>>

\* the goroutines spawned and not yet past wg.Done()
Running(b) == Cardinality({ i \in Batches : b.gor[i] \in {"spawned", "deleted"} })

\* the loop reads a batch of keys and starts its goroutine
Spawn ==
    /\ blobs.pc = "loop"
    /\ blobs.spawned < blobs.found
    /\ blobs' = [blobs EXCEPT !.pc = "add", !.spawned = @ + 1,
                              !.gor[blobs.spawned + 1] = "spawned"]
    /\ UNCHANGED blobFrame

\* wg.Add(1), after the go statement
WgAdd ==
    /\ blobs.pc = "add"
    /\ blobs' = [blobs EXCEPT !.pc = "loop", !.counter = @ + 1]
    /\ UNCHANGED blobFrame

\* no keys are left: the loop ends and wg.Wait() is called
EndLoop ==
    /\ blobs.pc = "loop"
    /\ blobs.spawned = blobs.found
    /\ blobs' = [blobs EXCEPT !.pc = "wait"]
    /\ UNCHANGED blobFrame

\* wg.Wait() returns when the counter is zero
WgWait ==
    /\ blobs.pc = "wait"
    /\ blobs.counter = 0
    /\ blobs' = [blobs EXCEPT !.pc = "decide"]
    /\ UNCHANGED blobFrame

\* if something: the sweep queues its own continuation
Reschedule ==
    /\ blobs.pc = "decide"
    /\ blobs' = [blobs EXCEPT !.pc = "done", !.rescheduled = blobs.something,
                              !.running = Running(blobs)]
    /\ UNCHANGED blobFrame

\* goroutine i: something = true, blobstore.DeleteMulti
DeleteBatch(i) ==
    /\ blobs.pc # "panic"
    /\ blobs.gor[i] = "spawned"
    /\ blobs' = [blobs EXCEPT !.gor[i] = "deleted", !.something = TRUE]
    /\ UNCHANGED blobFrame

\* goroutine i: wg.Done(), which panics when it takes the counter below zero
WgDone(i) ==
    /\ blobs.pc # "panic"
    /\ blobs.gor[i] = "deleted"
    /\ blobs' = [blobs EXCEPT !.gor[i] = "finished", !.counter = @ - 1,
                              !.pc = IF blobs.counter - 1 < 0 THEN "panic" ELSE @]
    /\ UNCHANGED blobFrame

BlobNext ==
    \/ Spawn
    \/ WgAdd
    \/ EndLoop
    \/ WgWait
    \/ Reschedule
    \/ \E i \in Batches : DeleteBatch(i)
    \/ \E i \in Batches : WgDone(i)

BlobSpec == BlobInit /\ [][BlobNext]_vars


(***************************************************************************)
(* taskNameEscape applied to byte strings.                                 *)
(***************************************************************************)
\* the bytes '-', '/', '2', 'F', '_' and 0xFF
EscapeBytesIn == {45, 47, 50, 70, 95, 255}

EscapeInputs == UNION { [1..n -> EscapeBytesIn] : n \in 0..MaxEscapeLen }

EscapeInit ==
    /\ now = StartTime
    /\ feeds = <<>>
    /\ stories = <<>>
    /\ contents = {}
    /\ failures = 0
    /\ pollRun = NoRun
    /\ lastOp = Idle
    /\ backoff = NoBackoff
    /\ queue = {}
    /\ retained = {}
    /\ subTasks = {}
    /\ hub = NoHub
    /\ NamingOff /\ MergingOff /\ RacingOff
    /\ FetchingOff /\ PurgeOff /\ BlobsOff
    /\ \E s \in EscapeInputs : escaped = [s |-> s, t |-> <<>>, done |-> FALSE]

\* UpdateFeeds escapes the id of a feed for its task name
EscapeId ==
    /\ ~escaped.done
    /\ escaped' = [escaped EXCEPT !.t = taskNameEscape(escaped.s), !.done = TRUE]
    /\ UNCHANGED <<now, feeds, stories, contents, failures, pollRun, lastOp, backoff,
                   sched, subTasks, hub, naming, merging, racing, fetching, purge, blobs>>

EscapeNext == EscapeId

EscapeSpec == EscapeInit /\ [][EscapeNext]_vars

IsHex(c) == c \in 48..57 \/ c \in 65..70

\* t is made of letters, digits, hyphens and underscores each followed by
\* two hex digits
RECURSIVE InTaskAlphabet(_)
InTaskAlphabet(t) ==
    IF t = <<>> THEN TRUE
    ELSE IF Head(t) = 95
    THEN /\ Len(t) >= 3
         /\ IsHex(t[2]) /\ IsHex(t[3])
         /\ InTaskAlphabet(SubSeq(t, 4, Len(t)))
    ELSE /\ (Head(t) \in 97..122 \/ Head(t) \in 65..90 \/ Head(t) \in 48..57
               \/ Head(t) = 45)
         /\ InTaskAlphabet(Tail(t))


(***************************************************************************)
(* A push and a poll of one feed in progress at once.  Each store          *)
(* operation of a call is a step of its own; both calls carry the same     *)
(* document.  calls holds the document, each call's place and locals, and  *)
(* the created time each story was first persisted with.                   *)
(***************************************************************************)
Callers == {"poll", "push"}

\* the stories of the document as ParseFeed returns them at time t
StampedAt(body, t) == [i \in 1..Len(body) |-> [body[i] EXCEPT !.Created = t]]

NoCall == [pc |-> "idle", h |-> ParsedFeed(ZeroTime), f |-> ParsedFeed(ZeroTime),
           ss |-> <<>>, us |-> <<>>]

RaceInit ==
    /\ now = StartTime
    /\ feeds \in { [u \in Urls |-> f] : f \in InitFeeds }
    /\ stories = <<>>
    /\ contents = {}
    /\ failures = 0
    /\ pollRun = NoRun
    /\ lastOp = Idle
    /\ backoff = NoBackoff
    /\ queue = {}
    /\ retained = {}
    /\ subTasks = {}
    /\ hub = NoHub
    /\ NamingOff /\ MergingOff /\ RestOff
    /\ \E d \in FeedTimes, body \in ParsedStories(StartTime) :
         calls = [url |-> "u", d |-> d, body |-> body, start |-> feeds, first |-> <<>>,
                  poll |-> NoCall, push |-> NoCall]

FromSub(c) == c = "push"

raceFrame == <<failures, pollRun, lastOp, backoff, sched, hub, naming, merging, rest>>

RaceTick ==
    /\ now < StartTime + MaxTicks
    /\ now' = now + 1
    /\ UNCHANGED <<feeds, stories, contents, subTasks, calls, raceFrame>>

\* the handler reads the Feed, returns at once when the poll is not due or
\* nobody views the pushed feed, and otherwise has the document parsed
BeginCall(c) ==
    /\ calls[c].pc = "idle"
    /\ calls' = [calls EXCEPT ![c] =
                   IF (c = "poll" /\ now < feeds[calls.url].NextUpdate)
                      \/ (c = "push" /\ NotViewed(feeds[calls.url], now))
                   THEN [@ EXCEPT !.pc = "done"]
                   ELSE [@ EXCEPT !.pc = "get", !.h = feeds[calls.url],
                                  !.ss = StampedAt(calls.body, now)]]
    /\ UNCHANGED <<now, feeds, stories, contents, subTasks, raceFrame>>

\* updateFeed: gn.Get(&f) and the overlay of the parsed Feed
GetFeed(c) ==
    /\ calls[c].pc = "get"
    /\ calls' = [calls EXCEPT ![c] =
                   [@ EXCEPT !.f = MergeFeed(feeds[calls.url], ParsedFeed(calls.d), FALSE, now),
                             !.pc = IF IsShortCircuit(feeds[calls.url], ParsedFeed(calls.d),
                                                      FALSE, FromSub(c))
                                    THEN "putshort" ELSE "getmulti"]]
    /\ UNCHANGED <<now, feeds, stories, contents, subTasks, raceFrame>>

\* the end of a call: the poll handler goes on to Feed.Subscribe
EndCall(c) ==
    subTasks' = IF c = "poll" THEN Subscribe(subTasks, calls.url, calls[c].h, now)
                ELSE subTasks

\* the short-circuit branch puts the Feed
PutShort(c) ==
    /\ calls[c].pc = "putshort"
    /\ feeds' = [feeds EXCEPT ![calls.url] = ShortCircuitFeed(calls[c].f, now)]
    /\ calls' = [calls EXCEPT ![c].pc = "done"]
    /\ EndCall(c)
    /\ UNCHANGED <<now, stories, contents, raceFrame>>

\* gn.GetMulti(getStories) and the choice of the stories to write
GetStories(c) ==
    /\ calls[c].pc = "getmulti"
    /\ \E us \in {UpdateStories(stories, calls.url, calls[c].ss, FALSE)} :
         calls' = [calls EXCEPT ![c].us = us,
                                ![c].pc = IF us = <<>> THEN "putmulti" ELSE "putsc"]
    /\ UNCHANGED <<now, feeds, stories, contents, subTasks, raceFrame>>

\* the StoryContent puts
PutContents(c) ==
    /\ calls[c].pc = "putsc"
    /\ contents' = contents \cup
                     { StoryKey(calls.url, calls[c].us[i].Id) : i \in 1..Len(calls[c].us) }
    /\ calls' = [calls EXCEPT ![c].pc = "putmulti"]
    /\ UNCHANGED <<now, feeds, stories, subTasks, raceFrame>>

\* the created times first persisted, after a put of the stories us
FirstPersisted(first, url, us) ==
    [k \in DOMAIN first \cup { StoryKey(url, us[i].Id) : i \in 1..Len(us) } |->
       IF k \in DOMAIN first THEN first[k]
       ELSE us[CHOOSE i \in 1..Len(us) : StoryKey(url, us[i].Id) = k].Created]

\* gn.PutMulti(puts): the Feed and the stories chosen
PutMulti(c) ==
    /\ calls[c].pc = "putmulti"
    /\ feeds' = [feeds EXCEPT ![calls.url] =
                   FullFeed(calls[c].f, ~IsZero(calls.d), Len(calls[c].us), FromSub(c), now)]
    /\ stories' = PutStories(stories, calls.url, calls[c].us)
    /\ calls' = [calls EXCEPT ![c].pc = "done",
                              !.first = FirstPersisted(@, calls.url, calls[c].us)]
    /\ EndCall(c)
    /\ UNCHANGED <<now, contents, raceFrame>>

RaceNext ==
    \/ RaceTick
    \/ \E c \in Callers : BeginCall(c)
    \/ \E c \in Callers : GetFeed(c)
    \/ \E c \in Callers : PutShort(c)
    \/ \E c \in Callers : GetStories(c)
    \/ \E c \in Callers : PutContents(c)
    \/ \E c \in Callers : PutMulti(c)

RaceSpec == RaceInit /\ [][RaceNext]_vars

\* One call run alone on the store st: the document parsed at time tp, the
\* writes made at time tw.
Alone(c, st, url, d, body, tp, tw) ==
    IF (c = "poll" /\ tp < st.feeds[url].NextUpdate)
       \/ (c = "push" /\ NotViewed(st.feeds[url], tp))
    THEN st
    ELSE LET f1 == MergeFeed(st.feeds[url], ParsedFeed(d), FALSE, tp)
             us == UpdateStories(st.stories, url, StampedAt(body, tp), FALSE)
         IN IF IsShortCircuit(st.feeds[url], ParsedFeed(d), FALSE, FromSub(c))
            THEN [st EXCEPT !.feeds[url] = ShortCircuitFeed(f1, tw)]
            ELSE [feeds |-> [st.feeds EXCEPT ![url] =
                               FullFeed(f1, ~IsZero(d), Len(us), FromSub(c), tw)],
                  stories |-> PutStories(st.stories, url, us)]

RaceTimes == StartTime..(StartTime + MaxTicks)

\* the stores the two calls can leave when one runs after the other
Sequential(st, url, d, body) ==
    { Alone(c2, Alone(c1, st, url, d, body, t[1], t[2]), url, d, body, t[3], t[4]) :
        <<c1, c2>> \in {<<"poll", "push">>, <<"push", "poll">>},
        t \in { x \in [1..4 -> RaceTimes] : x[1] <= x[2] /\ x[2] <= x[3] /\ x[3] <= x[4] } }


(***************************************************************************)
(* The push subscription of a feed.  SubscribeFeed, the task Feed.Subscribe *)
(* queues, asks the hub to subscribe; SubscribeCallback answers the hub's  *)
(* verification (GET) and takes its pushes (POST); polls go on.            *)
(***************************************************************************)
SubscribedFor == 48   \* hours a feed counts as subscribed after a refusal

\* what a verification request may carry
Modes == {"subscribe", "unsubscribe"}
Topics == Urls \cup {"v"}
\* hub.lease_seconds, in hours; 0 also when it is not a number
Leases == {0, 24}
\* the hub's answers to a subscribe request: no answer, or a status
Answers == {"reqerr", "204", "409", "500"}

PassDay ==
    /\ now + 24 <= StartTime + 24 * MaxDays
    /\ now' = now + 24
    /\ lastOp' = Idle
    /\ UNCHANGED <<feeds, stories, contents, failures, pollRun, backoff, sched,
                   subTasks, hub, later>>

\* (variant: the topic of the verification is not compared)
VerifyAcceptedAnyTopic(fds, url, mode, topic, t) ==
    /\ url \in DOMAIN fds
    /\ ~NotViewed(fds[url], t)
    /\ mode = "subscribe"

\* the feed is found, somebody views it, hub.mode is "subscribe" and
\* hub.topic is the feed's URL
VerifyAccepted(fds, url, mode, topic, t) ==
    /\ url \in DOMAIN fds
    /\ ~NotViewed(fds[url], t)
    /\ mode = "subscribe"
    /\ topic = url

\* SubscribeCallback, GET: the hub verifies a subscription.
SubscribeCallbackGet(url, mode, topic, lease) ==
    \E accepted \in {VerifyAccepted(feeds, url, mode, topic, now)} :
    \E putFails \in IF accepted THEN BOOLEAN ELSE {FALSE} :
       /\ putFails => failures < MaxFailures
       /\ failures' = failures + (IF putFails THEN 1 ELSE 0)
       /\ feeds' = IF accepted /\ ~putFails
                   THEN PutFeed(feeds, url, [feeds[url] EXCEPT !.Subscribed = now + lease])
                   ELSE feeds
       /\ lastOp' = Returned("SubscribeCallbackGet",
                             IF accepted THEN "verified" ELSE "rejected", url, now)
       /\ hub' = [hub EXCEPT !.kind = "verify", !.url = url, !.mode = mode,
                             !.topic = topic, !.lease = lease,
                             !.answer = IF accepted THEN "challenge" ELSE "404",
                             !.putOk = accepted /\ ~putFails, !.at = now]
       /\ UNCHANGED <<now, stories, contents, pollRun, backoff, sched, subTasks, later>>

\* the hub request of SubscribeFeed and what follows its answer
SubscribeRequest(url, answer, putFails) ==
    /\ feeds' = IF answer \in {"409", "500"} /\ ~putFails
                THEN PutFeed(feeds, url,
                             [feeds[url] EXCEPT !.Subscribed = now + SubscribedFor])
                ELSE feeds
    /\ lastOp' = Returned("SubscribeFeed", answer, url, now)
    /\ hub' = [hub EXCEPT !.kind = "subscribe", !.url = url, !.mode = "subscribe",
                          !.topic = url, !.lease = 0, !.answer = answer,
                          !.putOk = answer \in {"409", "500"} /\ ~putFails,
                          !.at = now,
                          !.early = @ \/ now < hub.quietUntil,
                          !.quietUntil = IF answer \in {"409", "500"}
                                         THEN now + SubscribedFor ELSE @]

\* SubscribeFeed: the subscribe task of a feed runs.
SubscribeFeed(url) ==
    /\ url \in subTasks
    /\ subTasks' = subTasks \ {url}
    /\ IF url \notin DOMAIN feeds
       THEN /\ lastOp' = Returned("SubscribeFeed", "err", url, now)
            /\ UNCHANGED <<feeds, failures, hub>>
       ELSE IF IsSubscribed(feeds[url], now)
       THEN /\ lastOp' = Returned("SubscribeFeed", "issubscribed", url, now)
            /\ UNCHANGED <<feeds, failures, hub>>
       ELSE \E answer \in Answers :
            \E putFails \in IF answer \in {"409", "500"} THEN BOOLEAN ELSE {FALSE} :
               /\ putFails => failures < MaxFailures
               /\ failures' = failures + (IF putFails THEN 1 ELSE 0)
               /\ SubscribeRequest(url, answer, putFails)
    /\ UNCHANGED <<now, stories, contents, pollRun, backoff, sched, later>>

\* the fetches and the store do not fail here
SubInit ==
    /\ now = StartTime
    /\ feeds \in { [u \in Urls |-> f] : f \in InitFeeds }
    /\ stories = <<>>
    /\ contents = {}
    /\ failures = MaxFailures
    /\ pollRun = NoRun
    /\ lastOp = Idle
    /\ backoff = NoBackoff
    /\ queue = {}
    /\ retained = {}
    /\ subTasks = {}
    /\ hub = NoHub
    /\ NamingOff /\ MergingOff /\ RacingOff /\ RestOff

SubNext ==
    \/ PassDay
    \/ \E url \in Urls : UpdateFeedNotDue(url, FALSE)
    \/ \E url \in Urls, last \in BOOLEAN, d \in FeedTimes :
          UpdateFeedFetched(url, last, d, <<>>)
    \/ \E url \in Urls : PushNotViewed(url)
    \/ \E url \in Urls, d \in FeedTimes : PushParsed(url, d, <<>>)
    \/ \E url \in Urls, mode \in Modes, topic \in Topics, lease \in Leases :
          SubscribeCallbackGet(url, mode, topic, lease)
    \/ \E url \in Urls : SubscribeFeed(url)

SubSpec == SubInit /\ [][SubNext]_vars


(***************************************************************************)
(* Properties.                                                             *)
(***************************************************************************)
\* the last handler run called updateFeed and the call took the full branch
\* to its end
FullOk(op) == op.called /\ op.path = "full" /\ op.ret = "ok"

ExpectedPuts(sts, op, strict) ==
    { op.ss[i].Id : i \in
        { j \in 1..Len(op.ss) :
            \/ StoryKey(op.url, op.ss[j].Id) \notin DOMAIN sts
            \/ /\ strict => ~IsZero(op.ss[j].Updated)
               /\ op.ss[j].Updated # sts[StoryKey(op.url, op.ss[j].Id)].Updated
            \/ op.updateAll } }

\* what C2 says of one step, for either reading of "differs"
WritesExactly(strict) ==
    /\ FullOk(lastOp') =>
         /\ lastOp'.storyPuts = ExpectedPuts(stories, lastOp', strict)
         /\ \A i \in 1..Len(lastOp'.ss) :
               lastOp'.ss[i].Id \in lastOp'.storyPuts =>
                  /\ StoryKey(lastOp'.url, lastOp'.ss[i].Id) \in DOMAIN stories'
                  /\ stories'[StoryKey(lastOp'.url, lastOp'.ss[i].Id)].Updated
                        = lastOp'.ss[i].Updated
    /\ lastOp'.called =>
         \A k \in DOMAIN stories :
            k[2] \notin lastOp'.storyPuts =>
               k \in DOMAIN stories' /\ stories'[k] = stories[k]

SameTwice(a, b) ==
    /\ a.called /\ b.called
    /\ a.url = b.url /\ a.declared = b.declared /\ a.ss = b.ss
    /\ a.fromSub = b.fromSub /\ a.updateLast = b.updateLast
    /\ ~a.updateAll /\ ~b.updateAll
    /\ a.ret = "ok" /\ b.ret = "ok"
    /\ ~a.storeFail /\ ~b.storeFail

\* C3: the second of two reconciliations in a row with the same fetched feed
\* and stories writes no Story and leaves the Feed's error count as it was.
C3_SecondRunNoOp ==
    [][SameTwice(lastOp, lastOp') =>
         /\ lastOp'.storyPuts = {}
         /\ feeds'[lastOp'.url].Errors = feeds[lastOp'.url].Errors]_vars

\* C4: in a run of plain polls that fetch the same non-empty declared update
\* time, every poll after the one that stored that time takes the
\* short-circuit: it puts the Feed alone and touches no Story or StoryContent.
C4_RunShortCircuits ==
    (lastOp.handler = "UpdateFeed" /\ lastOp.called /\ pollRun.n = 2) =>
        /\ lastOp.path = "short"
        /\ lastOp.storyPuts = {}
        /\ lastOp.contentPuts = {}

\* C5: the writes of one reconciliation go in one batch: no StoryContent of it
\* is persisted unless its Story and the Feed of it are.
C5_OneBatch ==
    lastOp.called =>
        /\ lastOp.contentPuts \subseteq lastOp.storyPuts
        /\ lastOp.contentPuts # {} => lastOp.feedPut

\* C6: whenever a store write that updateFeed attempts fails, updateFeed
\* returns an error.
C6_FailureReturned ==
    (lastOp.called /\ lastOp.storeFail) => lastOp.ret = "err"

\* C7: updateFeed called for a URL with no persisted Feed returns an error
\* and writes nothing: no Feed, Story or StoryContent is created.
C7_NoFeedNoWrite ==
    [][/\ (lastOp'.called /\ lastOp'.path = "notfound") =>
            /\ lastOp'.ret = "err"
            /\ lastOp'.url \notin DOMAIN feeds'
            /\ feeds' = feeds /\ stories' = stories /\ contents' = contents
            /\ ~lastOp'.feedPut /\ lastOp'.storyPuts = {} /\ lastOp'.contentPuts = {}
       /\ (lastOp'.called /\ lastOp'.url \notin DOMAIN feeds') =>
            lastOp'.path = "notfound"]_vars

\* C7 witness: addFeed's own put of the new Feed failed and its call of
\* updateFeed found no Feed.
C7_Witness ==
    /\ lastOp.handler = "addFeed"
    /\ lastOp.called
    /\ lastOp.path = "notfound"
    /\ lastOp.ret = "err"
    /\ lastOp.url \notin DOMAIN feeds

PushWritten(op) == op.called /\ op.fromSub /\ op.ret = "ok" /\ op.feedPut

\* C9 (as amended): after a push-originated reconciliation the Feed's next-due
\* is no earlier than now + 6 hours, even when the interval computed by the
\* scheduling policy is shorter.
C9_PushWaitsSixHours ==
    PushWritten(lastOp) =>
        feeds[lastOp.url].NextUpdate >= lastOp.at + PushWaitHours

\* C9 as stated: after a push-originated reconciliation the Feed's next-due is
\* no later than now + 6 hours.
C9_AsStated ==
    PushWritten(lastOp) =>
        feeds[lastOp.url].NextUpdate <= lastOp.at + PushWaitHours

\* C9 witness: a push whose policy interval is under 6 hours left the Feed due
\* in exactly 6 hours.
C9_Witness ==
    /\ PushWritten(lastOp)
    /\ Max(UpdateMin, Min(UpdateMax, feeds[lastOp.url].Average)) < PushWaitHours
    /\ feeds[lastOp.url].NextUpdate = lastOp.at + PushWaitHours

\* the delay C10 states, errors being the incremented count
StatedDelay(errors) == IF errors = 1 THEN 0 ELSE Min(errors + 1, 168)

\* a poll that failed (the fetch, the parse or the reconciliation) and whose
\* put of the Feed the store accepted
PollFailed(op) ==
    /\ op.handler = "UpdateFeed"
    /\ op.outcome \in {"fetcherr", "err"}
    /\ op.errPut = "ok"

C11_BackoffMonotoneCapped ==
    backoff.n >= 1 =>
        /\ backoff.delay = (IF feeds[lastOp.url].Errors = 1 THEN 0
                            ELSE Min(feeds[lastOp.url].Errors + 1, 168))
        /\ backoff.delay <= 168
        /\ backoff.n >= 2 => backoff.prev <= backoff.delay

\* C11 as stated: the error counts 0, 1, 2, ... map to delays of 0, 1, 2, ...
\* hours up to the cap, the count being the one before the failed poll or
\* the one after it.
C11_AsStated ==
    backoff.n >= 1 =>
        \E count \in {feeds[lastOp.url].Errors - 1, feeds[lastOp.url].Errors} :
            backoff.delay = Min(count, 168)

\* C11 witness: after failed polls in a row the delay has climbed from 167
\* hours to the cap and stays there.
C11_Witness ==
    /\ backoff.n >= 3
    /\ feeds[lastOp.url].Errors > 168
    /\ backoff.prev = 168
    /\ backoff.delay = 168

\* a poll that failed, whether or not the store accepted feedError's put
PollFailedAtAll(op) ==
    op.handler = "UpdateFeed" /\ op.outcome \in {"fetcherr", "err"}

\* C12: a feed whose polls fail repeatedly never drops out of polling: after
\* every failed poll its persisted next-due is at most 168 hours ahead, and
\* under fair scans, delivery and passing of time the feed is enqueued and
\* polled again after each failure.
C12_FailingFeedStaysPolled ==
    /\ [](PollFailedAtAll(lastOp) =>
            feeds[lastOp.url].NextUpdate <= lastOp.at + 168)
    /\ \A k \in 1..(MaxPolls - 1) :
          /\ (backoff.n = k) ~> (backoff.n = k /\ queue # {})
          /\ (backoff.n = k) ~> (backoff.n = k + 1)

\* C12 witness: a failed poll left the feed due 168 hours later, the time
\* passed and a scan enqueued the feed again.
C12_Witness ==
    /\ PollFailedAtAll(lastOp)
    /\ backoff.n >= 2
    /\ feeds[lastOp.url].NextUpdate = lastOp.at + 168
    /\ now = feeds[lastOp.url].NextUpdate
    /\ \E task \in queue : task.feed = lastOp.url

\* C13: a push callback (POST to SubscribeCallback) received while the feed
\* has no viewers is rejected: it writes no Feed, Story or StoryContent and
\* changes no Feed field.
C13_PushNotViewedRejected ==
    [][(/\ lastOp'.handler = "SubscribeCallback"
        /\ lastOp'.url \in DOMAIN feeds
        /\ NotViewed(feeds[lastOp'.url], lastOp'.at)) =>
          /\ ~lastOp'.called
          /\ feeds' = feeds /\ stories' = stories /\ contents' = contents]_vars

\* C13 witness: a push arrived for a stored feed last viewed more than two
\* days before and was turned away.
C13_Witness ==
    /\ lastOp.handler = "SubscribeCallback"
    /\ lastOp.outcome = "notviewed"
    /\ lastOp.url \in DOMAIN feeds
    /\ NotViewed(feeds[lastOp.url], lastOp.at)

\* C14: a verification callback (GET to SubscribeCallback) is accepted, the
\* challenge echoed and the feed's subscription-expiry set to now + the lease,
\* only if the feed has viewers, hub.mode is "subscribe" and hub.topic is the
\* feed's own URL; in every other case it is rejected and the Feed is left as
\* it is.
C14_VerifyOnlyOwnTopic ==
    [][lastOp'.handler = "SubscribeCallbackGet" =>
         IF /\ hub'.url \in DOMAIN feeds
            /\ ~NotViewed(feeds[hub'.url], hub'.at)
            /\ hub'.mode = "subscribe"
            /\ hub'.topic = hub'.url
         THEN /\ hub'.answer = "challenge"
              /\ hub'.putOk =>
                    feeds' = [feeds EXCEPT ![hub'.url].Subscribed = hub'.at + hub'.lease]
         ELSE /\ hub'.answer = "404"
              /\ feeds' = feeds]_vars

\* C14 witness: a verification for the feed's own URL was accepted and the
\* feed is subscribed for the lease.
C14_Witness ==
    /\ lastOp.handler = "SubscribeCallbackGet"
    /\ hub.answer = "challenge"
    /\ hub.putOk
    /\ hub.lease > 0
    /\ feeds[hub.url].Subscribed = hub.at + hub.lease

\* C15: after the hub answers a subscribe request with a status other than
\* 204 the feed's subscription-expiry is now + 48 hours, and whatever polls,
\* pushes and subscribe tasks follow, no further subscribe request is sent
\* for the feed before that time.
C15_HubLeftAlone ==
    /\ ~hub.early
    /\ (lastOp.handler = "SubscribeFeed" /\ hub.answer \in {"409", "500"} /\ hub.putOk) =>
          feeds[hub.url].Subscribed = hub.at + 48

\* C16: over any number of scans, the tasks made for the same feed with the
\* same next-due time have the same name, and tasks for different feeds or
\* for different next-due times have different names.
C16_NamesTellTasksApart ==
    \A a, b \in named :
        (a.id = b.id /\ a.n = b.n) <=> (a.name = b.name)

\* a plain poll (no "last" form value) of url has just run
PlainPoll(op, url) == op.handler = "UpdateFeed" /\ op.url = url /\ ~op.updateLast

\* C17: a plain poll delivered while the persisted next-due of its feed is in
\* the future fetches nothing and writes nothing; and so the poll task of a
\* feed delivered once more after a poll of it that succeeded fetches nothing
\* and changes no Feed or Story record.
C17_DuplicatePollHarmless ==
    [][\A url \in Urls :
         /\ (PlainPoll(lastOp', url) /\ url \in DOMAIN feeds
                /\ now < feeds[url].NextUpdate) =>
               /\ lastOp'.outcome = "notdue"
               /\ ~lastOp'.called
               /\ feeds' = feeds /\ stories' = stories /\ contents' = contents
         /\ (lastOp.handler = "UpdateFeed" /\ lastOp.url = url /\ lastOp.called
                /\ lastOp.ret = "ok" /\ PlainPoll(lastOp', url)) =>
               /\ lastOp'.outcome = "notdue"
               /\ feeds' = feeds /\ stories' = stories]_vars

\* the push and the poll have both returned
BothDone == calls # <<>> /\ \A c \in Callers : calls[c].pc = "done"

\* C18: however the steps of a push and of a poll of one feed that carry the
\* same stories interleave, the Feed and Story records they leave are those
\* of one of the two run after the other, and every story keeps the created
\* time it was first persisted with.
C18_RaceIsSequential ==
    BothDone =>
        /\ [feeds |-> feeds, stories |-> stories] \in
              Sequential([feeds |-> calls.start, stories |-> <<>>],
                         calls.url, calls.d, calls.body)
        /\ \A k \in DOMAIN stories : stories[k].Created = calls.first[k]

C20_NoUrlTwice ==
    \A i, j \in 1..Len(UrlList(opml)) :
        i < j => UrlList(opml)[i] # UrlList(opml)[j]

\* the top-level folders of tree fs that carry label
FoldersLabelled(fs, label) ==
    { i \in 1..Len(fs) : fs[i].Title = label /\ fs[i].XmlUrl = "" }

\* the last merge was given two folders with one label the tree did not
\* have, each holding one leaf, the two feed URLs different and new
TwoUnderNewLabel ==
    /\ lastMerge # <<>> /\ lastMerge.n > 0
    /\ Len(lastMerge.incoming) = 2
    /\ \A i \in 1..2 :
         /\ lastMerge.incoming[i].XmlUrl = ""
         /\ lastMerge.incoming[i].Title # ""
         /\ lastMerge.incoming[i].Outline[1] \in { Leaf(u) : u \in MergeUrls }
    /\ lastMerge.incoming[1].Title = lastMerge.incoming[2].Title
    /\ lastMerge.incoming[1].Outline[1] # lastMerge.incoming[2].Outline[1]
    /\ FoldersLabelled(lastMerge.before, lastMerge.incoming[1].Title) = {}
    /\ \A k \in 1..Len(UrlList(lastMerge.before)), i \in 1..2 :
         UrlList(lastMerge.before)[k] # lastMerge.incoming[i].Outline[1].XmlUrl

\* C21: two incoming outlines of one call with the same folder label, new to
\* the tree, and different new feed URLs end in one top-level folder of that
\* label that holds both leaves.
C21_OneFolderForOneLabel ==
    TwoUnderNewLabel =>
        /\ Cardinality(FoldersLabelled(opml, lastMerge.incoming[1].Title)) = 1
        /\ \A i \in FoldersLabelled(opml, lastMerge.incoming[1].Title) :
             opml[i].Outline = <<lastMerge.incoming[1].Outline[1],
                                 lastMerge.incoming[2].Outline[1]>>

\* C21 witness: the tree held leaf c; leaves a and b arrived under the new
\* label F and share the one folder F.
C21_Witness ==
    /\ TwoUnderNewLabel
    /\ lastMerge.before = <<Leaf("c")>>
    /\ opml = <<Leaf("c"), Folder("F", <<Leaf("a"), Leaf("b")>>)>>

\* C22: fetchFeed does not loop: whatever URL it is given and whatever the
\* server answers, one call makes at most two HTTP fetches (and at most two
\* invocations), and a second fetch is of a URL other than the original.
C22_AtMostTwoFetches ==
    fetching # <<>> =>
        /\ fetching.gets <= 2
        /\ fetching.hops <= 2
        /\ fetching.gets = 2 => fetching.fetchUrl # fetching.origUrl

\* C22 witness: the first document pointed to another URL, which was fetched
\* and parsed.
C22_Witness ==
    /\ fetching # <<>>
    /\ fetching.pc = "done"
    /\ fetching.gets = 2
    /\ fetching.result = "parsed"

\* C23: when DeleteOldFeed purges a feed not viewed within the retention
\* period, the Feed, its Stories and their StoryContent go together: after
\* the purge none of the three is left in the store.
C23_PurgedTogether ==
    (purge # <<>> /\ purge.outcome = "purged") =>
        /\ purge.url \notin DOMAIN feeds
        /\ StoryKeysOf(stories, purge.url) = {}
        /\ ContentKeysOf(contents, purge.url) = {}

\* C24: the subscription-expiry of a feed is changed only by an accepted
\* verification callback or by a subscribe request the hub answers with a
\* status other than 204; polls and pushes leave it as it is, so a subscribed
\* feed stops being subscribed only when the expiry time passes.
C24_ExpiryChangedOnlyByHub ==
    [][\A url \in DOMAIN feeds \cap DOMAIN feeds' :
         /\ feeds'[url].Subscribed # feeds[url].Subscribed =>
               \/ lastOp'.handler = "SubscribeCallbackGet" /\ hub'.answer = "challenge"
               \/ lastOp'.handler = "SubscribeFeed" /\ lastOp'.outcome \in {"409", "500"}
         /\ (IsSubscribed(feeds[url], now) /\ ~IsSubscribed(feeds'[url], now')) =>
               \/ feeds[url].Subscribed <= now'
               \/ lastOp'.handler = "SubscribeCallbackGet" /\ hub'.answer = "challenge"]_vars

\* C25: however the deletion goroutines of DeleteBlobs interleave with the
\* loop that spawns them, the counter of the WaitGroup is never negative, and
\* the sweep decides on its continuation only when every goroutine spawned
\* has finished.
C25_BarrierBeforeReschedule ==
    blobs # <<>> =>
        /\ blobs.counter >= 0
        /\ blobs.pc \in {"decide", "done"} => Running(blobs) = 0
        /\ blobs.pc = "done" => blobs.running = 0

\* C26: taskNameEscape turns every byte string into one of letters, digits,
\* hyphens and underscores each followed by two hex digits, and no two
\* different byte strings are turned into the same one.
C26_EscapeInjective ==
    (escaped # <<>> /\ escaped.done) =>
        /\ InTaskAlphabet(escaped.t)
        /\ \A other \in EscapeInputs :
             other # escaped.s => taskNameEscape(other) # escaped.t

\* C26 witness: the bytes "_2F" were escaped to "_5F2F", which is not what
\* "/" is escaped to.
C26_Witness ==
    /\ escaped # <<>> /\ escaped.done
    /\ escaped.s = <<95, 50, 70>>
    /\ escaped.t = <<95, 53, 70, 50, 70>>
    /\ taskNameEscape(<<47>>) = <<95, 50, 70>>

=============================================================================
